---- MODULE Spec2Model ----
(***************************************************************************)
(* Model of src/lib/generate_split_receipt_pdf.py: the one function        *)
(* generate_split_receipt_pdf(original_receipt, new_receipt,               *)
(* original_items, new_items, output_path).                                *)
(*                                                                         *)
(* Python values are modelled as follows.                                  *)
(*   int    a record [neg, mag]: sign and magnitude, the magnitude a       *)
(*          little-endian sequence of base-10^4 limbs without high zero    *)
(*          limbs (Python ints are unbounded; TLC's are 32 bits wide).     *)
(*   str    a sequence of one-character strings.                           *)
(*   None   the value Null;  a key missing from a dict is the value Absent.*)
(*   float  the result of int / 100 is an IEEE-754 double: a 53-bit        *)
(*          significand scaled by a power of two, rounded to nearest, ties *)
(*          to even; format(x, ".2f") rounds the double's exact value to   *)
(*          two decimals, ties to even.  The model covers magnitudes below *)
(*          10^32 (eight limbs), far from the overflow of a double.        *)
(***************************************************************************)
EXTENDS Integers, Sequences, FiniteSets, TLC

(***************************************************************************)
(* Unbounded naturals                                                      *)
(***************************************************************************)
Base == 10^4

\* Every Python value is a record tagged by its type in field t.
Absent == [t |-> "absent"]
Null == [t |-> "None"]

RECURSIVE MulSmallC(_, _, _)
\* x * k + c for a small k
MulSmallC(x, k, c) ==
    IF x = <<>> THEN (IF c = 0 THEN <<>> ELSE <<c>>)
    ELSE LET v == Head(x) * k + c
         IN <<v % Base>> \o MulSmallC(Tail(x), k, v \div Base)

MulSmall(x, k) == IF k = 0 THEN <<>> ELSE MulSmallC(x, k, 0)

RECURSIVE DivSmall(_, _)
\* [q, r]: x = q * d + r, 0 <= r < d, for a small d
DivSmall(x, d) ==
    IF x = <<>> THEN [q |-> <<>>, r |-> 0]
    ELSE LET hi == DivSmall(Tail(x), d)
             v == hi.r * Base + Head(x)
         IN [q |-> IF hi.q = <<>> /\ v \div d = 0 THEN <<>>
                   ELSE <<v \div d>> \o hi.q,
             r |-> v % d]

RECURSIVE AddC(_, _, _)
AddC(x, y, c) ==
    IF x = <<>> /\ y = <<>> THEN (IF c = 0 THEN <<>> ELSE <<c>>)
    ELSE LET a == IF x = <<>> THEN 0 ELSE Head(x)
             b == IF y = <<>> THEN 0 ELSE Head(y)
             v == a + b + c
         IN <<v % Base>> \o AddC(IF x = <<>> THEN <<>> ELSE Tail(x),
                                 IF y = <<>> THEN <<>> ELSE Tail(y),
                                 v \div Base)

Add(x, y) == AddC(x, y, 0)

RECURSIVE Norm(_)
\* drop the high zero limbs
Norm(x) == IF x = <<>> THEN <<>>
           ELSE IF x[Len(x)] = 0 THEN Norm(SubSeq(x, 1, Len(x) - 1))
           ELSE x

RECURSIVE SubB(_, _, _)
\* x - y - b for x >= y + b (limbs, not yet normalised)
SubB(x, y, b) ==
    IF x = <<>> THEN <<>>
    ELSE LET s == IF y = <<>> THEN 0 ELSE Head(y)
             v == Head(x) - s - b
         IN <<IF v < 0 THEN v + Base ELSE v>>
            \o SubB(Tail(x), IF y = <<>> THEN <<>> ELSE Tail(y),
                    IF v < 0 THEN 1 ELSE 0)

Sub(x, y) == Norm(SubB(x, y, 0))

RECURSIVE LessSame(_, _)
\* x < y for x, y of the same length: decided at the highest differing limb
LessSame(x, y) ==
    IF x = <<>> THEN FALSE
    ELSE LET n == Len(x)
         IN IF x[n] # y[n] THEN x[n] < y[n]
            ELSE LessSame(SubSeq(x, 1, n - 1), SubSeq(y, 1, n - 1))

Less(x, y) == Len(x) < Len(y) \/ (Len(x) = Len(y) /\ LessSame(x, y))

IsOdd(x) == x # <<>> /\ Head(x) % 2 = 1

RECURSIVE Nat2Big(_)
Nat2Big(n) == IF n = 0 THEN <<>> ELSE <<n % Base>> \o Nat2Big(n \div Base)

RECURSIVE Pow2Times(_, _)
\* x * 2^k
Pow2Times(x, k) == IF k = 0 \/ x = <<>> THEN x ELSE Pow2Times(MulSmall(x, 2), k - 1)

(***************************************************************************)
(* Python ints                                                             *)
(***************************************************************************)
MkInt(neg, mag) == [t |-> "int", neg |-> neg, mag |-> mag]

PyInt(n) == MkInt(n < 0, Nat2Big(IF n < 0 THEN -n ELSE n))

\* a + b on Python ints (line 185)
IntAdd(a, b) ==
    IF a.neg = b.neg THEN MkInt(a.neg, Add(a.mag, b.mag))
    ELSE IF Less(a.mag, b.mag) THEN MkInt(b.neg, Sub(b.mag, a.mag))
    ELSE LET d == Sub(a.mag, b.mag)
         IN MkInt(a.neg /\ d # <<>>, d)

(***************************************************************************)
(* int / 100 and format(float, ".2f")  (lines 83, 116, 117, 136, 154, 155, *)
(* 173, 183-185)                                                           *)
(***************************************************************************)
CentsPerDollar == 100

\* n / 100 has a full 53-bit significand when Lo <= n * 2^s < Hi:
\* Lo = 100 * 2^52 = 450359962737049600, Hi = 100 * 2^53 = 900719925474099200
Lo == <<9600, 3704, 9627, 359, 45>>
Hi == <<9200, 7409, 9254, 719, 90>>

\* bits shifted at once while the number is far from [Lo, Hi)
Chunk(far) == IF far THEN 13 ELSE 1

RECURSIVE ScaleUp(_, _)
\* doubles N until Lo <= N: [N, s] with N = n * 2^s
ScaleUp(N, s) ==
    IF ~Less(N, Lo) THEN [N |-> N, s |-> s]
    ELSE ScaleUp(MulSmall(N, 2^Chunk(Len(N) + 2 <= Len(Lo))),
                 s + Chunk(Len(N) + 2 <= Len(Lo)))

RECURSIVE ScaleDown(_, _, _)
RECURSIVE ScaleDownBy(_, _, _)
\* halves N until N < Hi: [N, s, sticky] with N = floor(n / 2^s), sticky
\* telling whether a one bit was dropped
ScaleDown(N, s, sticky) ==
    IF Less(N, Hi) THEN [N |-> N, s |-> s, sticky |-> sticky]
    ELSE ScaleDownBy(DivSmall(N, 2^Chunk(Len(N) >= Len(Hi) + 2)),
                     s + Chunk(Len(N) >= Len(Hi) + 2), sticky)

ScaleDownBy(d, s, sticky) == ScaleDown(d.q, s, sticky \/ d.r # 0)

\* d = [q, r] of a division by 100, plus a fraction below one unit when
\* sticky: the quotient to nearest, ties to even
Nearest(d, sticky) ==
    IF d.r > CentsPerDollar \div 2
       \/ (d.r = CentsPerDollar \div 2 /\ (sticky \/ IsOdd(d.q)))
    THEN Add(d.q, <<1>>) ELSE d.q

RoundDiv100(N, sticky) == Nearest(DivSmall(N, CentsPerDollar), sticky)

FloatUp(u) == [t |-> "float", m |-> RoundDiv100(u.N, FALSE), e |-> -u.s]

FloatDown(d) == [t |-> "float", m |-> RoundDiv100(d.N, d.sticky), e |-> d.s]

\* |n| / 100 as a double: [m, e] of value m * 2^e
TrueDiv100(mag) ==
    IF mag = <<>> THEN [t |-> "float", m |-> <<>>, e |-> 0]
    ELSE IF Less(mag, Lo) THEN FloatUp(ScaleUp(mag, 0))
    ELSE FloatDown(ScaleDown(mag, 0, FALSE))

\* d = [q, r] of the last halving: to nearest, ties to even
NearestHalf(d, sticky) ==
    IF d.r = 1 /\ (sticky \/ IsOdd(d.q)) THEN Add(d.q, <<1>>) ELSE d.q

RECURSIVE RoundShift(_, _, _)
RECURSIVE RoundShiftBy(_, _, _)
\* M / 2^s to nearest, ties to even (s >= 1)
RoundShift(M, s, sticky) ==
    IF M = <<>> THEN <<>>
    ELSE IF s = 1 THEN NearestHalf(DivSmall(M, 2), sticky)
    ELSE RoundShiftBy(DivSmall(M, 2^Chunk(s > 13)), s - Chunk(s > 13), sticky)

RoundShiftBy(d, s, sticky) == RoundShift(d.q, s, sticky \/ d.r # 0)

\* the hundredths shown by format(f, ".2f")
Hundredths(f) ==
    IF f.e >= 0 THEN Pow2Times(MulSmall(f.m, CentsPerDollar), f.e)
    ELSE RoundShift(MulSmall(f.m, CentsPerDollar), -f.e, FALSE)

\* d = [q, r] of the hundredths divided by 100: "<sign><dollars>.<two digits>"
Decimal2(neg, d) ==
    [t |-> "money", sign |-> IF neg THEN "-" ELSE "", dollars |-> d.q, frac |-> d.r]

\* f"{(cents / 100):.2f}" for a Python int
FormatCents(cents) ==
    Decimal2(cents.neg, DivSmall(Hundredths(TrueDiv100(cents.mag)), CentsPerDollar))

(***************************************************************************)
(* Python strs, dict.get, slicing, the in operator                         *)
(***************************************************************************)
Str(chars) == [t |-> "str", s |-> chars]

\* a literal of the source text
Lit(text) == [t |-> "lit", v |-> text]

Raise(err, line) == [t |-> "raise", err |-> err, line |-> line]

\* d.get(key, default)
Get(d, key, default) == IF d[key].t = "absent" THEN default ELSE d[key]

\* Slice without the cut: v in place of v[:n]
SliceWhole(v, n, line) ==
    IF v.t # "str" THEN Raise("TypeError", line) ELSE v

\* v[:n]; None and ints are not subscriptable
Slice(v, n, line) ==
    IF v.t # "str" THEN Raise("TypeError", line)
    ELSE Str(SubSeq(v.s, 1, IF Len(v.s) < n THEN Len(v.s) ELSE n))

IsPrefix(p, s) == Len(p) <= Len(s) /\ SubSeq(s, 1, Len(p)) = p

RECURSIVE Find(_, _)
\* sub in s, by scanning s from the left
Find(sub, s) == IF IsPrefix(sub, s) THEN TRUE
                ELSE IF s = <<>> THEN FALSE
                ELSE Find(sub, Tail(s))

\* f"${(v / 100):.2f}": the text after the dollar sign
Money(v, line) ==
    IF v.t = "raise" THEN v
    ELSE IF v.t # "int" THEN Raise("TypeError", line)
    ELSE FormatCents(v)

\* str(v)
StrOf(v) == [t |-> "repr", of |-> v]

(***************************************************************************)
(* Flowables (reportlab.platypus)                                          *)
(***************************************************************************)
Meal == <<"M", "e", "a", "l">>
CloseTag == <<"<", "/", "i", ">">>

\* The paragraph parser rejects an end tag that closes no open tag
\* ("saw </i> instead of expected </b>"); texts without "<" are accepted.
MarkupError(frag) == frag.t = "str" /\ Find(CloseTag, frag.s)

\* Paragraph(text, style): the text is parsed on construction
Paragraph(text, style, line) ==
    [kind |-> "Paragraph", style |-> style,
     text |-> IF \E i \in 1..Len(text) : text[i].t = "raise" THEN text
              ELSE IF \E i \in 1..Len(text) : MarkupError(text[i])
              THEN <<Raise("ValueError", line)>> ELSE text]

Spacer == [kind |-> "Spacer", style |-> "", text |-> <<>>]

\* Table(data, ...): rows of cells, each cell a text
Table(rows, style) == [kind |-> "Table", style |-> style, text |-> rows]

(***************************************************************************)
(* The story (lines 31-231).  a is the call's arguments, now the minute    *)
(* that strftime prints of the wall clock read on line 64.                 *)
(***************************************************************************)
OtherExpenses ==
    Str(<<"O", "t", "h", "e", "r", " ", "E", "x", "p", "e", "n", "s", "e", "s">>)

IdShort == 8
IdLong == 16

\* lines 63-75
Header(now) ==
    << Paragraph(<<Lit("SPLIT RECEIPT DOCUMENTATION")>>, "title", 63),
       Paragraph(<<Lit("Generated: "), [t |-> "strftime", at |-> now]>>, "body", 64),
       Spacer,
       Paragraph(<<Lit("<b>Purpose:</b> This document certifies that a single receipt was split")>>,
                 "body", 74),
       Spacer >>

\* lines 78-99
OriginalSection(a) ==
    LET o == a.original_receipt
    IN << Paragraph(<<Lit("ORIGINAL RECEIPT")>>, "heading", 78),
          Table(<< << <<Lit("Vendor:")>>, <<Get(o, "vendor", Lit("Unknown"))>> >>,
                   << <<Lit("Date:")>>, <<Get(o, "receipt_date", Lit("Not specified"))>> >>,
                   << <<Lit("Original Total:")>>,
                      <<Lit("$"), Money(Get(o, "total_cents", PyInt(0)), 83), Lit(" CAD")>> >>,
                   << <<Lit("Receipt ID:")>>,
                      <<Slice(Get(o, "id", Str(<<>>)), IdShort, 84), Lit("...")>> >> >>,
                "original"),
          Spacer >>

\* lines 113-118 and 151-156: one row of an item table
ItemRow(item, line) ==
    << <<Get(item, "description", Str(<<>>))>>,
       <<StrOf(Get(item, "quantity", PyInt(1)))>>,
       <<Lit("$"), Money(Get(item, "unit_price_cents", PyInt(0)), line + 1)>>,
       <<Lit("$"), Money(Get(item, "total_cents", PyInt(0)), line + 2)>> >>

ItemHeader == << <<Lit("Description")>>, <<Lit("Qty")>>, <<Lit("Unit Price")>>, <<Lit("Total")>> >>

\* lines 110-132 and 148-170: the table is appended only for a non-empty list
ItemsTable(items, style, line) ==
    IF items # <<>>
    THEN << Table(<<ItemHeader>> \o [i \in 1..Len(items) |-> ItemRow(items[i], line)], style) >>
    ELSE <<>>

RECURSIVE SumTotals(_)
\* the sum of the items' total_cents
SumTotals(items) ==
    IF items = <<>> THEN PyInt(0)
    ELSE IntAdd(Get(Head(items), "total_cents", PyInt(0)), SumTotals(Tail(items)))

\* ReceiptATotal taken from the items instead of the receipt
ReceiptATotalOfItems(a) == SumTotals(a.original_items)

\* ReceiptATotal read with original_receipt['total_cents']
ReceiptATotalStrict(a) ==
    IF a.original_receipt.total_cents.t = "absent" THEN Raise("KeyError", 134)
    ELSE a.original_receipt.total_cents

\* line 134
ReceiptATotal(a) == Get(a.original_receipt, "total_cents", PyInt(0))

\* lines 173, 184, 185
ReceiptBTotal(a) == Get(a.new_receipt, "total_cents", PyInt(0))

\* line 141
Category(a) == Get(a.new_receipt, "suggested_category", OtherExpenses)

\* Deductible with category.startswith("Meal") in place of "Meal" in category
DeductiblePrefix(category) ==
    IF category.t # "str" THEN Raise("TypeError", 142)
    ELSE IF IsPrefix(Meal, category.s) THEN Lit("50%") ELSE Lit("100%")

\* line 142
Deductible(category) ==
    IF category.t # "str" THEN Raise("TypeError", 142)
    ELSE IF Find(Meal, category.s) THEN Lit("50%") ELSE Lit("100%")

\* line 185: (receipt_a_total + new total) / 100, formatted
GrandTotal(x, y, line) ==
    IF x.t = "raise" THEN x
    ELSE IF x.t # "int" \/ y.t # "int" THEN Raise("TypeError", line)
    ELSE Money(IntAdd(x, y), line)

\* lines 102-138
ReceiptASection(a) ==
    << Paragraph(<<Lit("SPLIT INTO TWO RECEIPTS")>>, "heading", 102),
       Spacer,
       Paragraph(<<Lit("<b>Receipt A: Office Supplies (100% Deductible)</b>")>>, "body", 106),
       Spacer >>
    \o ItemsTable(a.original_items, "items", 115)
    \o << Spacer,
          Paragraph(<<Lit("<b>Receipt A Total: $"), Money(ReceiptATotal(a), 136), Lit(" CAD</b>")>>,
                    "body", 136),
          Paragraph(<<Lit("Tax Treatment: 100% deductible business expense")>>, "body", 137),
          Spacer >>

\* lines 141-175
ReceiptBSection(a) ==
    LET category == Category(a)
        deductible == Deductible(category)
    IN << Paragraph(<<Lit("<b>Receipt B: "), category, Lit(" ("), deductible,
                      Lit(" Deductible)</b>")>>, "body", 144),
          Spacer >>
       \o ItemsTable(a.new_items, "new_items", 153)
       \o << Spacer,
             Paragraph(<<Lit("<b>Receipt B Total: $"), Money(ReceiptBTotal(a), 173),
                         Lit(" CAD</b>")>>, "body", 173),
             Paragraph(<<Lit("Tax Treatment: "), deductible, Lit(" deductible ("), category,
                         Lit(")")>>, "body", 174),
             Spacer >>

\* lines 178-209; the dash of lines 189 and 193 is written "-" here
SummarySection(a) ==
    LET category == Category(a)
        deductible == Deductible(category)
    IN << Paragraph(<<Lit("SUMMARY")>>, "heading", 178),
          Table(<< << <<Lit("")>>, <<Lit("Receipt A")>>, <<Lit("Receipt B")>>, <<Lit("Total")>> >>,
                   << <<Lit("Subtotal + Tax")>>,
                      <<Lit("$"), Money(ReceiptATotal(a), 183)>>,
                      <<Lit("$"), Money(ReceiptBTotal(a), 184)>>,
                      <<Lit("$"), GrandTotal(ReceiptATotal(a), ReceiptBTotal(a), 185)>> >>,
                   << <<Lit("Tax Category")>>, <<Lit("Office Supplies")>>, <<category>>,
                      <<Lit("-")>> >>,
                   << <<Lit("Deductibility")>>, <<Lit("100%")>>, <<deductible>>,
                      <<Lit("-")>> >> >>,
                "summary"),
          Spacer >>

\* lines 212-231
FooterSection(a) ==
    << Paragraph(<<Lit("<b>CRA Compliance:</b> This split was performed to ensure proper categorization")>>,
                 "body", 220),
       Spacer,
       Paragraph(<<Lit("This document was automatically generated by the Receipt Management System.<br/>Original Receipt ID: "),
                   Slice(Get(a.original_receipt, "id", Str(<<>>)), IdLong, 227),
                   Lit("...<br/>New Receipt ID: "),
                   Slice(Get(a.new_receipt, "id", Str(<<>>)), IdLong, 228),
                   Lit("...")>>, "body", 231) >>

\* the flowables appended to story, in order
Flowables(a, now) ==
    Header(now) \o OriginalSection(a) \o ReceiptASection(a) \o ReceiptBSection(a)
    \o SummarySection(a) \o FooterSection(a)

RECURSIVE Flatten(_)
\* the concatenation of a sequence of sequences
Flatten(ss) == IF ss = <<>> THEN <<>> ELSE Head(ss) \o Flatten(Tail(ss))

\* the text fragments of a flowable, in the order the code evaluates them
Frags(b) == IF b.kind = "Table" THEN Flatten(Flatten(b.text)) ELSE b.text

RECURSIVE FirstRaise(_)
FirstRaise(frags) ==
    IF frags = <<>> THEN [t |-> "ok"]
    ELSE IF Head(frags).t = "raise" THEN Head(frags)
    ELSE FirstRaise(Tail(frags))

\* the story once every flowable is appended, unless one of them raised
Outcome(blocks, exc) ==
    IF exc.t = "raise" THEN exc ELSE [t |-> "ok", story |-> blocks]

Built(blocks) ==
    Outcome(blocks, FirstRaise(Flatten([i \in 1..Len(blocks) |-> Frags(blocks[i])])))

\* lines 31-231: the story, or the first exception raised while building it
BuildStory(a, now) == Built(Flowables(a, now))

(***************************************************************************)
(* doc.build(story) (line 234): the engine lays the story out and saves    *)
(* the document: the file is opened for writing (created or truncated),    *)
(* the document is serialised and written from offset 0, the file closed.  *)
(***************************************************************************)
PdfHeader == [kind |-> "%PDF", style |-> "", text |-> <<>>]

\* time.time() as doc.build reads it when it creates the document: the
\* second, and the fraction of the second, a value no other reading has
TimeStamp(sec, reading) == [sec |-> sec, frac |-> reading]

\* the /Info object: /CreationDate and /ModDate, the time stamp to the second
PdfInfo(ts) ==
    [kind |-> "/Info", style |-> "",
     text |-> <<[t |-> "pdfdate", at |-> ts.sec], [t |-> "pdfdate", at |-> ts.sec]>>]

\* the trailer: /ID, a digest of the time stamp and of the content
PdfTrailer(story, ts) ==
    [kind |-> "trailer", style |-> "",
     text |-> <<[t |-> "md5", time |-> ts, of |-> story]>>]

\* the bytes of the document, one unit per object
Render(story, ts) == <<PdfHeader>> \o story \o <<PdfInfo(ts), PdfTrailer(story, ts)>>

NoFile == [exists |-> FALSE, data |-> <<>>]

\* open(path, "wb")
Truncate(file) == [exists |-> TRUE, data |-> <<>>]

\* WriteData on a file opened for appending
WriteAppend(file, data) == [exists |-> TRUE, data |-> file.data \o data]

\* write(data) through a descriptor at offset 0: the bytes beyond the written
\* ones stay as they are
WriteData(file, data) ==
    [exists |-> TRUE, data |-> data \o SubSeq(file.data, Len(data) + 1, Len(file.data))]

(***************************************************************************)
(* Inputs                                                                  *)
(***************************************************************************)
MaxClock == 1

\* strftime('%B %d, %Y at %I:%M %p') prints the time to the minute
SecondsPerMinute == 60

\* the second of the first call: the last second of a minute
FirstSecond == 59

Minute(sec) == sec \div SecondsPerMinute
MaxCalls == 2

Procs == {1, 2}

PathA == "out/a.pdf"
PathB == "out/b.pdf"
PathMissingDir == "missing/c.pdf"
Paths == {PathA, PathB, PathMissingDir}

\* the directory "out" exists and is writable, "missing" does not exist
Writable(path) == path \in {PathA, PathB}

IdChars == <<"r", "c", "p", "t", "-", "0", "1", "2", "3", "4", "5", "6", "7", "8", "9", "-", "a", "b", "c", "d">>
IdOf(n) == Str(SubSeq(IdChars, 1, n))

MealsAndEntertainment == Str(<<"M", "e", "a", "l", "s", " ", "&", " ", "E", "n", "t", "e", "r", "t", "a", "i", "n", "m", "e", "n", "t">>)
OfficeSupplies == Str(<<"O", "f", "f", "i", "c", "e", " ", "S", "u", "p", "p", "l", "i", "e", "s">>)
LowerMeals == Str(<<"m", "e", "a", "l", "s">>)
TeamMeal == Str(<<"T", "e", "a", "m", " ", "M", "e", "a", "l">>)
Mea == Str(<<"M", "e", "a">>)
Italic == Str(<<"T", "r", "a", "v", "e", "l", "<", "/", "i", ">">>)

Acme == Str(<<"A", "c", "m", "e">>)
Day == Str(<<"2", "0", "2", "4", "-", "0", "5", "-", "0", "1">>)

\* 7036874417766400 = 100 * 2^46: from here on the doubles are more than
\* 0.01 apart
Big == MkInt(FALSE, <<6400, 1776, 8744, 7036>>)
BigPlus1 == MkInt(FALSE, <<6401, 1776, 8744, 7036>>)

Receipt(id, vendor, date, total, category) ==
    [id |-> id, vendor |-> vendor, receipt_date |-> date, total_cents |-> total,
     purpose_text |-> Absent, suggested_category |-> category]

Item(description, quantity, unit, total) ==
    [description |-> description, quantity |-> quantity,
     unit_price_cents |-> unit, total_cents |-> total]

Pens == Item(Str(<<"P", "e", "n", "s">>), PyInt(2), PyInt(250), PyInt(500))
Paper == Item(Str(<<"P", "a", "p", "e", "r">>), Absent, PyInt(550), PyInt(550))
Lunch == Item(Str(<<"L", "u", "n", "c", "h">>), PyInt(1), PyInt(2575), PyInt(2575))
Coffee == Item(Absent, PyInt(3), PyInt(333), PyInt(999))

Args(o, n, oi, ni, path) ==
    [original_receipt |-> o, new_receipt |-> n, original_items |-> oi,
     new_items |-> ni, output_path |-> path]

OrigTotals == {Absent, Null, PyInt(0), PyInt(1050), PyInt(-5), Big, BigPlus1}
NewTotals == {Absent, Null, PyInt(1), PyInt(2575)}
Categories == {Absent, Null, MealsAndEntertainment, OfficeSupplies, LowerMeals,
               TeamMeal, Mea, Italic}
OrigIds == {Absent, IdOf(0), IdOf(5), IdOf(8), IdOf(9), IdOf(16), IdOf(20)}
NewIds == {Absent, IdOf(17)}

Original(id, total) == Receipt(id, Acme, Day, total, Absent)
New(id, total, category) == Receipt(id, Acme, Day, total, category)

\* the totals vary, one receipt's at a time
TotalInputs ==
    { Args(Original(IdOf(20), t), New(IdOf(17), PyInt(2575), MealsAndEntertainment),
           <<Pens, Paper>>, <<Lunch>>, PathA) : t \in OrigTotals }
    \cup
    { Args(Original(IdOf(20), PyInt(1050)), New(IdOf(17), u, MealsAndEntertainment),
           <<Pens, Paper>>, <<Lunch>>, PathA) : u \in NewTotals }
    \cup
    { Args(Original(IdOf(20), PyInt(1050)), New(IdOf(17), Null, Italic),
           <<Pens, Paper>>, <<Lunch>>, PathA) }

\* the category varies
CategoryInputs ==
    { Args(Original(IdOf(20), PyInt(1050)), New(IdOf(17), PyInt(2575), c),
           <<Pens, Paper>>, <<Lunch>>, PathA) : c \in Categories }

\* the item lists vary; the items of <<Coffee>> do not add up to the total
ItemInputs ==
    { Args(Original(IdOf(20), PyInt(1050)), New(IdOf(17), PyInt(2575), OfficeSupplies),
           l[1], l[2], PathA) :
        l \in {<<<<>>, <<>>>>, <<<<>>, <<Coffee>>>>, <<<<Coffee>>, <<>>>>,
                <<<<Pens, Paper>>, <<Lunch>>>>} }

\* the ids vary
IdInputs ==
    { Args(Original(i, PyInt(1050)), New(IdOf(17), PyInt(2575), OfficeSupplies),
           <<Pens, Paper>>, <<>>, PathA) : i \in OrigIds }
    \cup
    { Args(Original(IdOf(20), PyInt(1050)), New(j, PyInt(2575), OfficeSupplies),
           <<Pens, Paper>>, <<>>, PathA) : j \in NewIds }

\* the path varies, and the optional vendor and date
PathInputs ==
    { Args(Receipt(IdOf(9), l[1], l[1], PyInt(1050), Absent),
           New(IdOf(17), PyInt(2575), TeamMeal),
           <<>>, <<Lunch>>, l[2]) :
        l \in {<<Absent, PathA>>, <<Acme, PathB>>, <<Acme, PathMissingDir>>} }

Inputs == TotalInputs \cup CategoryInputs \cup ItemInputs \cup IdInputs \cup PathInputs

\* sys.stdout of the process: a stream that can encode every character, a
\* stream that cannot encode U+2705 (ascii, latin-1), or no stream (None)
Stdouts == {"utf-8", "ascii", "closed"}

\* what the environment does to one call: nothing, a failure of the layout
\* engine, or a disk that fills up during the write
Faults == {"none", "RenderError", "ENOSPC"}

(***************************************************************************)
(* State                                                                   *)
(***************************************************************************)
VARIABLES
    clock,    \* the wall clock, in seconds
    fs,       \* the file system: path -> file
    pc,       \* where each invocation stands
    args,     \* the arguments of each invocation
    fault,    \* what the environment does to each invocation
    story,    \* the list built on lines 31-231
    readAt,   \* the minute of datetime.now() on line 64
    stamp,    \* the time stamp doc.build gave the document
    err,      \* the exception that left the invocation
    ret,      \* the value returned
    printed,  \* success notices printed by the invocation
    builds,   \* calls of doc.build made by the invocation
    calls,    \* invocations made so far by each caller
    hist,     \* what the caller's previous invocation left behind
    log,      \* the opens and writes of output files, in order
    stdout    \* the encoding of the process's sys.stdout

vars == <<clock, fs, pc, args, fault, story, readAt, stamp, err, ret, printed, builds,
          calls, hist, log, stdout>>

NoValue == "<no value>"
NoArgs == [t |-> "none"]
NoHist == [t |-> "none"]
NoStamp == TimeStamp(0, <<>>)

Init ==
    /\ clock = FirstSecond
    /\ fs = [q \in Paths |-> NoFile]
    /\ pc = [p \in Procs |-> "idle"]
    /\ args = [p \in Procs |-> NoArgs]
    /\ fault = [p \in Procs |-> "none"]
    /\ story = [p \in Procs |-> <<>>]
    /\ readAt = [p \in Procs |-> 0]
    /\ stamp = [p \in Procs |-> NoStamp]
    /\ err = [p \in Procs |-> NoValue]
    /\ ret = [p \in Procs |-> NoValue]
    /\ printed = [p \in Procs |-> 0]
    /\ builds = [p \in Procs |-> 0]
    /\ calls = [p \in Procs |-> 0]
    /\ hist = [p \in Procs |-> NoHist]
    /\ log = <<>>
    /\ stdout \in Stdouts

\* StoryCell for a story kept in a module-level list
StoryCellShared(p) == 1

\* StoryList for a list that outlives the call (a module-level list, or a
\* mutable default argument)
StoryKept(old) == old

\* line 31: story = [] binds a new empty list, whatever an earlier call built
StoryList(old) == <<>>

\* story is a local of the invocation (line 31)
StoryCell(p) == p

\* Propagate with the exception caught and dropped
Swallow(p, e) ==
    /\ pc' = [pc EXCEPT ![p] = "print"]
    /\ err' = err

\* No statement of the function catches an exception: it leaves the call.
Propagate(p, e) ==
    /\ pc' = [pc EXCEPT ![p] = "raised"]
    /\ err' = [err EXCEPT ![p] = e]

\* entry into the function: lines 14-31
Enter(p, a, f) ==
    /\ pc' = [pc EXCEPT ![p] = "line31"]
    /\ args' = [args EXCEPT ![p] = a]
    /\ fault' = [fault EXCEPT ![p] = f]
    /\ story' = [story EXCEPT ![StoryCell(p)] = StoryList(@)]
    /\ stamp' = [stamp EXCEPT ![p] = NoStamp]
    /\ err' = [err EXCEPT ![p] = NoValue]
    /\ ret' = [ret EXCEPT ![p] = NoValue]
    /\ printed' = [printed EXCEPT ![p] = 0]
    /\ builds' = [builds EXCEPT ![p] = 0]
    /\ calls' = [calls EXCEPT ![p] = @ + 1]

\* a caller invokes generate_split_receipt_pdf
Call(p, a, f) ==
    /\ pc[p] = "idle"
    /\ calls[p] = 0
    /\ Enter(p, a, f)
    /\ UNCHANGED <<clock, fs, readAt, hist, log, stdout>>

\* the caller invokes it again with the same arguments, after a call that
\* wrote its document (it returned, or failed in the print of line 235)
Retry(p, f) ==
    /\ pc[p] = "done" \/ (pc[p] = "raised" /\ err[p] = "UnicodeEncodeError")
    /\ calls[p] < MaxCalls
    /\ Enter(p, args[p], f)
    /\ hist' = [hist EXCEPT ![p] = [t |-> pc[p], err |-> err[p],
                                    file |-> fs[args[p].output_path]]]
    /\ UNCHANGED <<clock, fs, readAt, log, stdout>>

\* lines 31-231
ComposeStory(p) ==
    /\ pc[p] = "line31"
    /\ \E r \in {BuildStory(args[p], Minute(clock))} :
         IF r.t = "raise"
         THEN /\ Propagate(p, r.err)
              /\ UNCHANGED <<story, readAt>>
         ELSE /\ story' = [story EXCEPT ![StoryCell(p)] = @ \o r.story]
              /\ readAt' = [readAt EXCEPT ![p] = Minute(clock)]
              /\ pc' = [pc EXCEPT ![p] = "build"]
              /\ err' = err
    /\ UNCHANGED <<clock, fs, args, fault, ret, printed, builds, calls, hist, log,
                   stdout, stamp>>

\* line 234, up to the opening of the output file
DocBuild(p) ==
    /\ pc[p] = "build"
    /\ builds' = [builds EXCEPT ![p] = @ + 1]
    /\ stamp' = [stamp EXCEPT ![p] = TimeStamp(clock, <<p, calls[p]>>)]
    /\ LET path == args[p].output_path
       IN IF fault[p] = "RenderError"
          THEN Propagate(p, "RenderError") /\ UNCHANGED <<fs, log>>
          ELSE IF ~Writable(path)
          THEN Propagate(p, "FileNotFoundError") /\ UNCHANGED <<fs, log>>
          ELSE /\ fs' = [fs EXCEPT ![path] = Truncate(@)]
               /\ log' = Append(log, <<p, "open">>)
               /\ pc' = [pc EXCEPT ![p] = "write"]
               /\ err' = err
    /\ UNCHANGED <<clock, args, fault, story, readAt, ret, printed, calls, hist,
                   stdout>>

\* line 234, the write of the document and the close
DocSave(p) ==
    /\ pc[p] = "write"
    /\ LET path == args[p].output_path
           data == Render(story[StoryCell(p)], stamp[p])
       IN IF fault[p] = "ENOSPC"
          THEN /\ \E k \in {0, Len(data) - 1} :
                    fs' = [fs EXCEPT ![path] = WriteData(@, SubSeq(data, 1, k))]
               /\ Propagate(p, "OSError")
               /\ log' = log
          ELSE /\ fs' = [fs EXCEPT ![path] = WriteData(@, data)]
               /\ log' = Append(log, <<p, "write">>)
               /\ pc' = [pc EXCEPT ![p] = "print"]
               /\ err' = err
    /\ UNCHANGED <<clock, args, fault, story, readAt, ret, printed, builds, calls, hist,
                   stdout, stamp>>

\* lines 235-236: the notice begins with U+2705; print encodes it for
\* sys.stdout and raises when the encoding has no such character, and prints
\* nothing when there is no stream
Finish(p) ==
    /\ pc[p] = "print"
    /\ IF stdout = "ascii"
       THEN /\ Propagate(p, "UnicodeEncodeError")
            /\ UNCHANGED <<printed, ret>>
       ELSE /\ printed' = [printed EXCEPT ![p] = IF stdout = "closed" THEN @ ELSE @ + 1]
            /\ ret' = [ret EXCEPT ![p] = args[p].output_path]
            /\ pc' = [pc EXCEPT ![p] = "done"]
            /\ err' = err
    /\ UNCHANGED <<clock, fs, args, fault, story, readAt, builds, calls, hist, log,
                   stdout, stamp>>

\* a second passes; the model follows the clock from the first call on
Tick ==
    /\ clock < FirstSecond + MaxClock
    /\ \E p \in Procs : pc[p] # "idle"
    /\ clock' = clock + 1
    /\ UNCHANGED <<fs, pc, args, fault, story, readAt, err, ret, printed, builds,
                   calls, hist, log, stdout, stamp>>

\* One caller, which may call again with the same arguments.
Next ==
    \/ Tick
    \/ \E a \in Inputs, f \in Faults : Call(1, a, f)
    \/ \E f \in Faults : Retry(1, f)
    \/ ComposeStory(1)
    \/ DocBuild(1)
    \/ DocSave(1)
    \/ Finish(1)

Spec == Init /\ [][Next]_vars

(***************************************************************************)
(* Two callers invoke the function concurrently, once each.                *)
(***************************************************************************)
\* a short document and a longer one for one path, the longer one for
\* another path
ConcInputs ==
    { Args(Original(IdOf(9), PyInt(1050)), New(IdOf(17), PyInt(2575), OfficeSupplies),
           l[1], <<>>, l[2]) :
        l \in {<<<<>>, PathA>>, <<<<Pens, Paper>>, PathA>>, <<<<Pens, Paper>>, PathB>>} }

ConcFaults == {"none", "RenderError"}

NextConc ==
    \/ Tick
    \/ \E p \in Procs, a \in ConcInputs, f \in ConcFaults : Call(p, a, f)
    \/ \E p \in Procs : ComposeStory(p)
    \/ \E p \in Procs : DocBuild(p)
    \/ \E p \in Procs : DocSave(p)
    \/ \E p \in Procs : Finish(p)

SpecConc == Init /\ [][NextConc]_vars

(***************************************************************************)
(* What a document shows                                                   *)
(***************************************************************************)
\* the invocation has built its story
HasStory(p) == story[p] # <<>>

\* the cents of a Python int as dollars and cents, in integer arithmetic
ExactMoney(n) == Decimal2(n.neg, DivSmall(n.mag, CentsPerDollar))

\* the first flowable of the story that is a table of the given style
TableOf(st, style) ==
    st[CHOOSE i \in 1..Len(st) : st[i].kind = "Table" /\ st[i].style = style]

HasTable(st, style) ==
    \E i \in 1..Len(st) : st[i].kind = "Table" /\ st[i].style = style

\* the paragraphs of the story that open with the given literal
Lines(st, opening) ==
    { i \in 1..Len(st) : st[i].kind = "Paragraph" /\ st[i].text[1] = Lit(opening) }

TheLine(st, opening) == st[CHOOSE i \in Lines(st, opening) : TRUE]

\* the first n characters of a string
Take(chars, n) == [i \in 1..(IF Len(chars) < n THEN Len(chars) ELSE n) |-> chars[i]]

HasMeal(chars) ==
    \E i \in 1..Len(chars) :
        i + 3 <= Len(chars) /\ <<chars[i], chars[i + 1], chars[i + 2], chars[i + 3]>> = Meal

IsIntValue(v) == v.t = "int"

\* every key that is present holds a value of the documented type
WellTypedReceipt(r) ==
    /\ \A k \in {"id", "vendor", "receipt_date", "suggested_category"} :
         r[k].t \in {"absent", "str"}
    /\ r.total_cents.t \in {"absent", "int"}

WellTypedItems(items) ==
    \A i \in 1..Len(items) :
        /\ items[i].description.t \in {"absent", "str"}
        /\ \A k \in {"quantity", "unit_price_cents", "total_cents"} :
             items[i][k].t \in {"absent", "int"}

WellTyped(a) ==
    /\ WellTypedReceipt(a.original_receipt) /\ WellTypedReceipt(a.new_receipt)
    /\ WellTypedItems(a.original_items) /\ WellTypedItems(a.new_items)

Called(p) == pc[p] # "idle"

(***************************************************************************)
(* C1  For all integer total_cents of the two receipts, the "Subtotal +    *)
(* Tax" row of the SUMMARY table shows the two totals and their sum        *)
(* exactly, as dollars with two decimals.                                  *)
(***************************************************************************)
C1_SummaryRowExact ==
    \A p \in Procs :
        (HasStory(p) /\ IsIntValue(args[p].original_receipt.total_cents)
                     /\ IsIntValue(args[p].new_receipt.total_cents))
        => LET row == TableOf(story[p], "summary").text[2]
               x == args[p].original_receipt.total_cents
               y == args[p].new_receipt.total_cents
           IN /\ row[2] = <<Lit("$"), ExactMoney(x)>>
              /\ row[3] = <<Lit("$"), ExactMoney(y)>>
              /\ row[4] = <<Lit("$"), ExactMoney(IntAdd(x, y))>>

(***************************************************************************)
(* C2  The deductibility shown for Receipt B, in its label, in its         *)
(* tax-treatment line and in the SUMMARY table, is 50% exactly when the    *)
(* category contains "Meal" (case-sensitive), else 100%; the category is   *)
(* suggested_category, or "Other Expenses" when the key is absent.         *)
(***************************************************************************)
ShownCategory(p) ==
    IF args[p].new_receipt.suggested_category.t = "absent" THEN OtherExpenses
    ELSE args[p].new_receipt.suggested_category

Percent(p) == IF HasMeal(ShownCategory(p).s) THEN Lit("50%") ELSE Lit("100%")

C2_Deductibility ==
    \A p \in Procs :
        HasStory(p)
        => /\ Lines(story[p], "<b>Receipt B: ") # {}
           /\ Lines(story[p], "Tax Treatment: ") # {}
           /\ TheLine(story[p], "<b>Receipt B: ").text[2] = ShownCategory(p)
           /\ TheLine(story[p], "<b>Receipt B: ").text[4] = Percent(p)
           /\ TheLine(story[p], "Tax Treatment: ").text[2] = Percent(p)
           /\ TheLine(story[p], "Tax Treatment: ").text[4] = ShownCategory(p)
           /\ TableOf(story[p], "summary").text[3][3] = <<ShownCategory(p)>>
           /\ TableOf(story[p], "summary").text[4][3] = <<Percent(p)>>

\* a document for "Meals & Entertainment" shows 50%
C2_Witness ==
    /\ HasStory(1)
    /\ args[1].new_receipt.suggested_category = MealsAndEntertainment
    /\ TheLine(story[1], "<b>Receipt B: ").text[4] = Lit("50%")

(***************************************************************************)
(* C3  Each receipt's item table is in the document exactly when its item  *)
(* list is non-empty, and either way the receipt's total line is there and *)
(* shows the total_cents of the receipt record, never the sum of the       *)
(* items' total_cents.  (Totals beyond 100 * 2^46 cents are shown as       *)
(* the double nearest to them, see C1.)                                    *)
(***************************************************************************)
RecordTotal(r) == IF r.total_cents.t = "absent" THEN PyInt(0) ELSE r.total_cents

Shown(n) == IF Less(Big.mag, n.mag) THEN FormatCents(n) ELSE ExactMoney(n)

TotalLineShows(st, opening, r, items) ==
    /\ Cardinality(Lines(st, opening)) = 1
    /\ TheLine(st, opening).text[2] = Shown(RecordTotal(r))
    /\ SumTotals(items) # RecordTotal(r)
       => TheLine(st, opening).text[2] # Shown(SumTotals(items))

C3_ItemTablesAndTotals ==
    \A p \in Procs :
        HasStory(p)
        => /\ HasTable(story[p], "items") <=> args[p].original_items # <<>>
           /\ HasTable(story[p], "new_items") <=> args[p].new_items # <<>>
           /\ TotalLineShows(story[p], "<b>Receipt A Total: $",
                             args[p].original_receipt, args[p].original_items)
           /\ TotalLineShows(story[p], "<b>Receipt B Total: $",
                             args[p].new_receipt, args[p].new_items)

\* a document without the Receipt A table, whose total line shows $10.50
C3_Witness ==
    /\ HasStory(1)
    /\ args[1].original_items = <<>>
    /\ args[1].new_items = <<Coffee>>
    /\ ~HasTable(story[1], "items")
    /\ HasTable(story[1], "new_items")
    /\ TheLine(story[1], "<b>Receipt A Total: $").text[2] = ExactMoney(PyInt(1050))

(***************************************************************************)
(* C4  As claimed: when total_cents is absent from a receipt record, the   *)
(* call ends in a type or key error and does not complete.                 *)
(***************************************************************************)
TotalAbsent(p) ==
    \/ args[p].original_receipt.total_cents = Absent
    \/ args[p].new_receipt.total_cents = Absent

TotalNone(p) ==
    \/ args[p].original_receipt.total_cents = Null
    \/ args[p].new_receipt.total_cents = Null

C4_AbsentTotalRaises ==
    \A p \in Procs :
        (Called(p) /\ TotalAbsent(p)) => pc[p] # "done"

(***************************************************************************)
(* C4, amended  An absent total_cents is read as 0: the document shows     *)
(* $0.00 for it and no type or key error arises from it.  When             *)
(* total_cents is present but None the call ends, before anything is       *)
(* written, printed or returned, in a type error, unless an earlier        *)
(* statement raised first (line 144, for a category with an unbalanced     *)
(* end tag).                                                               *)
(***************************************************************************)
C4_AbsentTotalIsZero ==
    \A p \in Procs :
        Called(p)
        => /\ (TotalAbsent(p) /\ WellTyped(args[p]) /\ pc[p] = "raised")
              => err[p] \notin {"TypeError", "KeyError"}
           /\ (HasStory(p) /\ args[p].original_receipt.total_cents = Absent)
              => TheLine(story[p], "<b>Receipt A Total: $").text[2]
                   = [t |-> "money", sign |-> "", dollars |-> <<>>, frac |-> 0]
           /\ (HasStory(p) /\ args[p].new_receipt.total_cents = Absent)
              => TheLine(story[p], "<b>Receipt B Total: $").text[2]
                   = [t |-> "money", sign |-> "", dollars |-> <<>>, frac |-> 0]
           /\ TotalNone(p)
              => /\ pc[p] \in {"line31", "raised"}
                 /\ pc[p] = "raised"
                    => \/ err[p] = "TypeError"
                       \/ /\ err[p] = "ValueError"
                          /\ args[p].original_receipt.total_cents # Null
                          /\ args[p].new_receipt.suggested_category = Italic
                 /\ fs[args[p].output_path] = NoFile
                 /\ printed[p] = 0
                 /\ ret[p] = NoValue

\* a call whose original receipt has no total_cents returned, and its
\* document shows $0.00 as the total of Receipt A
C4_Witness ==
    /\ pc[1] = "done"
    /\ args[1].original_receipt.total_cents = Absent
    /\ TheLine(story[1], "<b>Receipt A Total: $").text[2]
         = [t |-> "money", sign |-> "", dollars |-> <<>>, frac |-> 0]

(***************************************************************************)
(* C5  For well-typed inputs and a writable output_path the call           *)
(* succeeds: it does not raise, and once it has returned there is a        *)
(* non-empty file at output_path, no file at any other path, and the       *)
(* value returned is output_path.                                          *)
(***************************************************************************)
C5_WellTypedSucceeds ==
    \A p \in Procs :
        (Called(p) /\ WellTyped(args[p]) /\ Writable(args[p].output_path)
                   /\ fault[p] = "none")
        => /\ pc[p] # "raised"
           /\ pc[p] = "done"
              => /\ fs[args[p].output_path].exists
                 /\ fs[args[p].output_path].data # <<>>
                 /\ \A q \in Paths \ {args[p].output_path} : fs[q] = NoFile
                 /\ ret[p] = args[p].output_path

(***************************************************************************)
(* C6  When doc.build fails (the layout engine fails, the path cannot be   *)
(* opened, or the write fails), the exception leaves the call as it is:    *)
(* doc.build was called once, no success notice was printed and nothing    *)
(* was returned, also when part of the file was written.                   *)
(***************************************************************************)
BuildFails(p) ==
    \/ fault[p] = "RenderError"
    \/ ~Writable(args[p].output_path)
    \/ fault[p] = "ENOSPC"

BuildFailure(p) ==
    IF fault[p] = "RenderError" THEN "RenderError"
    ELSE IF ~Writable(args[p].output_path) THEN "FileNotFoundError"
    ELSE "OSError"

C6_FailurePropagates ==
    \A p \in Procs :
        (builds[p] > 0 /\ BuildFails(p))
        => /\ builds[p] = 1
           /\ pc[p] \in {"write", "raised"}
           /\ pc[p] = "write" => fault[p] = "ENOSPC"
           /\ pc[p] = "raised" => err[p] = BuildFailure(p)
           /\ printed[p] = 0
           /\ ret[p] = NoValue

\* the disk filled up during the write: part of the document is in the
\* file and OSError left the call
C6_Witness ==
    /\ pc[1] = "raised"
    /\ err[1] = "OSError"
    /\ fs[args[1].output_path].data # <<>>
    /\ fs[args[1].output_path].data # Render(story[1], stamp[1])
    /\ printed[1] = 0

(***************************************************************************)
(* C7  As claimed: a second call with the same arguments overwrites the    *)
(* file, and the content it leaves differs from the content the first      *)
(* call left in the "Generated:" line at most.                             *)
(***************************************************************************)
\* the call wrote its whole document: it returned, or only the print of
\* line 235 failed
Saved(p) == pc[p] = "done" \/ (pc[p] = "raised" /\ err[p] = "UnicodeEncodeError")

SavedBefore(p) ==
    hist[p].t = "done" \/ (hist[p].t = "raised" /\ hist[p].err = "UnicodeEncodeError")

IsTimestampLine(b) == b.kind = "Paragraph" /\ b.text[1] = Lit("Generated: ")

SameButTimestamp(d1, d2) ==
    /\ Len(d1) = Len(d2)
    /\ \A i \in 1..Len(d1) :
         d1[i] # d2[i] => (IsTimestampLine(d1[i]) /\ IsTimestampLine(d2[i]))

C7_SameButTimestamp ==
    \A p \in Procs :
        (Saved(p) /\ SavedBefore(p))
        => SameButTimestamp(hist[p].file.data, fs[args[p].output_path].data)

(***************************************************************************)
(* C7, amended  A second call with the same arguments overwrites the file, *)
(* and the content it leaves differs from the content the first call left  *)
(* at most in the "Generated:" line and in what doc.build derives from     *)
(* the clock: the dates of the document information and the /ID of the     *)
(* trailer.                                                                *)
(***************************************************************************)
\* two objects of a file that differ, differ in a value taken from the clock
ClockDerived(b1, b2) ==
    \/ IsTimestampLine(b1) /\ IsTimestampLine(b2)
    \/ b1.kind = "/Info" /\ b2.kind = "/Info"
    \/ /\ b1.kind = "trailer" /\ b2.kind = "trailer"
       /\ SameButTimestamp(b1.text[1].of, b2.text[1].of)

SameButClock(d1, d2) ==
    /\ Len(d1) = Len(d2)
    /\ \A i \in 1..Len(d1) : d1[i] # d2[i] => ClockDerived(d1[i], d2[i])

C7_SameButClock ==
    \A p \in Procs :
        (Saved(p) /\ SavedBefore(p))
        => /\ fs[args[p].output_path].data = Render(story[p], stamp[p])
           /\ SameButClock(hist[p].file.data, fs[args[p].output_path].data)

\* two completed calls within one minute: the "Generated:" lines agree and
\* the two contents differ all the same
C7_Witness ==
    /\ pc[1] = "done"
    /\ hist[1].t = "done"
    /\ hist[1].file.data # fs[args[1].output_path].data
    /\ \A i \in 1..Len(hist[1].file.data) :
         IsTimestampLine(hist[1].file.data[i])
         => hist[1].file.data[i] = fs[args[1].output_path].data[i]

(***************************************************************************)
(* C8  The ORIGINAL RECEIPT table shows the first 8 characters of the      *)
(* original receipt's id followed by "...", the footer the first 16        *)
(* characters of the same id and of the new receipt's id, each followed    *)
(* by "..."; an empty or absent id leaves just "...".                      *)
(***************************************************************************)
IdText(r) == IF r.id.t = "absent" THEN <<>> ELSE r.id.s

Footer(st) == st[Len(st)]

C8_IdTruncation ==
    \A p \in Procs :
        HasStory(p)
        => /\ TableOf(story[p], "original").text[4][1] = <<Lit("Receipt ID:")>>
           /\ TableOf(story[p], "original").text[4][2]
                = <<Str(Take(IdText(args[p].original_receipt), 8)), Lit("...")>>
           /\ Len(Footer(story[p]).text) = 5
           /\ Footer(story[p]).text[2] = Str(Take(IdText(args[p].original_receipt), 16))
           /\ Footer(story[p]).text[3] = Lit("...<br/>New Receipt ID: ")
           /\ Footer(story[p]).text[4] = Str(Take(IdText(args[p].new_receipt), 16))
           /\ Footer(story[p]).text[5] = Lit("...")

\* a 20-character id: 8 characters in the table, 16 in the footer
C8_Witness ==
    /\ HasStory(1)
    /\ args[1].original_receipt.id = IdOf(20)
    /\ TableOf(story[1], "original").text[4][2] = <<IdOf(8), Lit("...")>>
    /\ Footer(story[1]).text[2] = IdOf(16)

(***************************************************************************)
(* Concurrent invocations                                                  *)
(***************************************************************************)
\* the document the invocation produces when it runs alone and reads the
\* clock at the minute it did
Alone(p) == Render(BuildStory(args[p], readAt[p]).story, stamp[p])

Other(p) == CHOOSE q \in Procs : q # p

\* the position in log of an open or a write of p (0: none yet)
At(p, what) ==
    IF \E i \in 1..Len(log) : log[i] = <<p, what>>
    THEN CHOOSE i \in 1..Len(log) : log[i] = <<p, what>>
    ELSE 0

(***************************************************************************)
(* C9  Invocations running concurrently with different output paths are    *)
(* independent: under every interleaving, the file an invocation leaves    *)
(* at its path holds exactly the document it produces when run alone.      *)
(***************************************************************************)
C9_DifferentPathsIndependent ==
    \A p \in Procs :
        (Saved(p) /\ Called(Other(p))
                  /\ args[Other(p)].output_path # args[p].output_path)
        => /\ fs[args[p].output_path].data = Alone(p)
           /\ pc[p] = "done" => ret[p] = args[p].output_path

\* both invocations were in doc.build at once, on different paths and
\* with different documents, and both returned
C9_Witness ==
    /\ pc[1] = "done" /\ pc[2] = "done"
    /\ args[1].output_path # args[2].output_path
    /\ args[1].original_items # args[2].original_items
    /\ At(1, "open") < At(2, "open") /\ At(2, "open") < At(1, "write")
    /\ fs[args[1].output_path].data = Alone(1)

(***************************************************************************)
(* C10  As claimed: when two invocations run concurrently on the same      *)
(* path and both have written, the file is the complete document of the    *)
(* one whose write came last.                                              *)
(***************************************************************************)
BothSavedSamePath ==
    /\ Saved(1) /\ Saved(2)
    /\ args[1].output_path = args[2].output_path

LastWriter == IF At(1, "write") > At(2, "write") THEN 1 ELSE 2

C10_LastWriterWins ==
    BothSavedSamePath => fs[args[1].output_path].data = Alone(LastWriter)

(***************************************************************************)
(* C10, amended  The file begins with the complete document of the         *)
(* invocation whose write came last.  It is exactly that document unless   *)
(* the other invocation wrote a longer document after the last writer      *)
(* had opened the file: then the end of the other document follows it.     *)
(***************************************************************************)
\* what is left of the other document behind the last writer's
LeftOver(p, q) ==
    IF At(q, "write") > At(p, "open")
    THEN SubSeq(Alone(q), Len(Alone(p)) + 1, Len(Alone(q)))
    ELSE <<>>

C10_LastWriterThenTail ==
    BothSavedSamePath
    => fs[args[1].output_path].data
         = Alone(LastWriter) \o LeftOver(LastWriter, Other(LastWriter))

\* the shorter document was written last, over the longer one
C10_Witness ==
    /\ BothSavedSamePath
    /\ LeftOver(LastWriter, Other(LastWriter)) # <<>>
    /\ fs[args[1].output_path].data # Alone(LastWriter)

====
